---------------------------- MODULE Spec2Model ----------------------------
(***************************************************************************)
(* Tiered offer allocation of rachana28/DHAPP-BACKEND: driver ranking,     *)
(* tier escalation, accept / reject / cancel and the periodic sweep, for   *)
(* the passenger engine (app/utils/allocation.py, app/modules/trips) and   *)
(* the tow engine (app/modules/towing).                                    *)
(*                                                                         *)
(* Storage model.  The handlers run in separate SQLAlchemy sessions on a   *)
(* READ COMMITTED database (app/database.py).  A handler is a process      *)
(* whose position is proc[p].pc; it is cut where the code reads committed  *)
(* data and later writes on the strength of what it read.  A step that     *)
(* writes (flush ... commit) is atomic: the rows it updates are row-locked *)
(* from the flush to the commit, so no other writer of those rows can fall *)
(* in between.  An ORM UPDATE of a row that no longer exists raises        *)
(* StaleDataError, which rolls the transaction back and leaves the handler *)
(* with an unhandled error (HTTP 500, result "error"); an ORM DELETE of a  *)
(* row that is already gone only warns.                                    *)
(*                                                                         *)
(* Time.  An offer carries age = utcnow() - created_at in minutes; the     *)
(* clock advances by TickMinutes and ages saturate at AgeCap, the first    *)
(* value past the 10 minute threshold (the code only compares the age      *)
(* with that threshold).  Every request of the model is booked within the  *)
(* last hours, so a driver who won one has hours_since_last <= 4.          *)
(***************************************************************************)
EXTENDS Integers, Sequences, FiniteSets, TLC

\* ------------------------------------------------------------ constants
TIER_SIZE == 3
ESCALATION_MINUTES == 10

\* ------------------------------------------------------------ bounds
\* Minutes the clock advances per Tick.
TickMinutes == 10
\* Operations the clients may start in one behaviour.
MaxOps == 3

AgeCap == ((ESCALATION_MINUTES \div TickMinutes) + 1) * TickMinutes

\* ------------------------------------------------------------ fixtures
NoHistory == -1
NoDriver == 0
NoOffer == 0
NoTrip == 0

DriverIds == 1 .. 5
TripIds == {1, 2}
Clients == {"c1", "c2"}
Sched == "sched"
Procs == Clients \cup {Sched}

\* The Driver / TowTruckDriver table: rating in tenths (rating * 10 is the
\* base score), minutes since the last assigned trip booked before the
\* behaviour starts (NoHistory: none).  Spec scenario of section 8: equal
\* drivers, all without history; driver 5 is banned.
DriverTable ==
  [d \in DriverIds |->
     [rating10 |-> 0,
      status |-> IF d = 5 THEN "banned" ELSE "available",
      vehicle_type |-> "SUV",
      history |-> NoHistory]]

VARIABLES
  engine,     \* "trips" (passenger engine) or "tow" (tow engine)
  fleet,      \* Driver / TowTruckDriver table: id -> row (fixed by Init)
  trip,       \* Trip table: TripIds -> [status, driver_id, vehicle_type]
  offers,     \* TripOffer / TowTripOffer table: set of rows
  nextOfferId,\* the offer table's id sequence
  proc,       \* handler processes: Procs -> record
  opsLeft,    \* operations the clients may still start
  scope,      \* the trips booked in this behaviour (fixed by Init)
  escCount    \* per trip: escalation checks that returned True (history)

vars == <<engine, fleet, trip, offers, nextOfferId, proc, opsLeft, scope, escCount>>

\* ------------------------------------------------------------ helpers
Min(a, b) == IF a < b THEN a ELSE b

OffersOf(t) == {o \in offers : o.trip_id = t}
IdsOf(S) == {o.id : o \in S}
OfferById(i) == CHOOSE o \in offers : o.id = i
Exists(i) == \E o \in offers : o.id = i

\* The drivers that call accept / reject on offer id i: its owner, and one
\* driver that does not own it.
Intruder == CHOOSE d \in DOMAIN fleet : \A e \in DOMAIN fleet : e <= d
Callers(i) == {Intruder} \cup {o.driver_id : o \in {x \in offers : x.id = i}}

\* ------------------------------------------------------------ ranking
\* Mutant of get_driver_score: the rating is subtracted, not added.
get_driver_score_rating_subtracted(rating10, last, active_offers_count) ==
  LET recency == IF last # NoHistory
                 THEN IF last > 168 * 60 THEN 40
                      ELSE IF last > 72 * 60 THEN 30
                      ELSE IF last > 24 * 60 THEN 20
                      ELSE IF last > 4 * 60 THEN 10
                      ELSE 0
                 ELSE 50
      penalty == IF active_offers_count > 0 THEN active_offers_count * 25 ELSE 0
  IN recency - rating10 - penalty

\* get_driver_score: last = minutes since the last trip, or NoHistory.
get_driver_score(rating10, last, active_offers_count) ==
  LET base == rating10
      recency == IF last # NoHistory
                 THEN IF last > 168 * 60 THEN 40
                      ELSE IF last > 72 * 60 THEN 30
                      ELSE IF last > 24 * 60 THEN 20
                      ELSE IF last > 4 * 60 THEN 10
                      ELSE 0
                 ELSE 50
      penalty == IF active_offers_count > 0 THEN active_offers_count * 25 ELSE 0
  IN base + recency - penalty

\* get_tow_driver_score: the tow engine's buckets.
get_tow_driver_score(rating10, last, active_offers_count) ==
  LET base == rating10
      recency == IF last # NoHistory
                 THEN IF last > 24 * 60 THEN 20
                      ELSE IF last > 4 * 60 THEN 10
                      ELSE 0
                 ELSE 50
      penalty == IF active_offers_count > 0 THEN active_offers_count * 25 ELSE 0
  IN base + recency - penalty

\* select Trip.booking_time where driver_id = d order by booking_time desc limit 1
LastTrip(tr, d) ==
  IF \E t \in TripIds : tr[t].status # "none" /\ tr[t].driver_id = d
  THEN 0
  ELSE fleet[d].history

\* select count(offer.id) where driver_id = d and status = "pending"
ActiveOffers(os, d) == Cardinality({o \in os : o.driver_id = d /\ o.status = "pending"})

Score(eng, tr, os, d) ==
  IF eng = "tow"
  THEN get_tow_driver_score(fleet[d].rating10, LastTrip(tr, d), ActiveOffers(os, d))
  ELSE get_driver_score(fleet[d].rating10, LastTrip(tr, d), ActiveOffers(os, d))

\* The filtered driver rows in storage (id) order.
RECURSIVE Eligible(_, _, _)
Eligible(eng, vt, d) ==
  IF d \notin DOMAIN fleet THEN <<>>
  ELSE (IF fleet[d].status = "available"
           /\ (eng = "tow" \/ fleet[d].vehicle_type = vt)
        THEN <<d>> ELSE <<>>) \o Eligible(eng, vt, d + 1)

\* list.sort(key=score, reverse=True): stable, descending.  An entry
\* goes behind the entries with a higher score and behind those with the
\* same score that came before it.
SortDesc(ds, sc) ==
  LET Before(i) == {j \in 1 .. Len(ds) :
                      sc[ds[j]] > sc[ds[i]] \/ (sc[ds[j]] = sc[ds[i]] /\ j < i)}
  IN [k \in 1 .. Len(ds) |->
        ds[CHOOSE i \in 1 .. Len(ds) : Cardinality(Before(i)) = k - 1]]

\* The filtered rows and their scores are computed once, then sorted.
rank_drivers(eng, tr, os, vt) ==
  CHOOSE ranked \in {SortDesc(ds, sc) :
                       ds \in {Eligible(eng, vt, 1)},
                       sc \in {[d \in DOMAIN fleet |-> Score(eng, tr, os, d)]}} : TRUE

\* all_ranked_drivers[start:end]
Slice(s, start, end) ==
  IF start >= Len(s) THEN <<>>
  ELSE SubSeq(s, start + 1, Min(end, Len(s)))

\* Mutant of create_offers_for_tier: the rows are added but never committed.
create_offers_uncommitted(os, nid, t, drivers, tier) == os

\* create_offers_for_tier: one pending row per driver, ids from the sequence.
create_offers_for_tier(os, nid, t, drivers, tier) ==
  os \cup {[id |-> nid + k - 1, trip_id |-> t, driver_id |-> drivers[k],
            status |-> "pending", tier |-> tier, age |-> 0] : k \in 1 .. Len(drivers)}

\* ------------------------------------------------------------ processes
Idle == [pc |-> "idle", op |-> "none", res |-> "none", offer |-> NoOffer,
         drv |-> NoDriver, trip |-> NoTrip, tier |-> 0, old |-> {},
         batch |-> <<>>, queue |-> <<>>, count |-> 0]

\* A handler returns: its locals are dropped; its result (the sweep's count,
\* the trip a cancel call answers with) stays until the slot serves the
\* next call.
Finish(rec, r) ==
  IF r \in {"notfound", "invalid"}
  THEN [Idle EXCEPT !.op = rec.op, !.res = r]
  ELSE [Idle EXCEPT !.op = rec.op, !.res = r, !.count = rec.count,
                    !.trip = IF rec.op = "cancel" THEN rec.trip ELSE NoTrip]

Call(o, off, d, t) == [Idle EXCEPT !.op = o, !.offer = off, !.drv = d, !.trip = t]

\* A request is served by a free client slot (the first free one: the slots
\* are interchangeable); the scheduler's job runs in its own.
Begin(p) ==
  /\ proc[p].pc = "idle"
  /\ p = "c2" => proc["c1"].pc # "idle"
  /\ IF p \in Clients THEN opsLeft > 0 /\ opsLeft' = opsLeft - 1
                      ELSE opsLeft' = opsLeft

Init ==
  /\ engine \in {"trips", "tow"}
  /\ fleet = DriverTable
  /\ trip = [t \in TripIds |-> [status |-> "none", driver_id |-> NoDriver,
                                vehicle_type |-> "SUV"]]
  /\ offers = {}
  /\ nextOfferId = 1
  /\ proc = [p \in Procs |-> Idle]
  /\ opsLeft = MaxOps
  /\ scope = {1}
  /\ escCount = [t \in TripIds |-> 0]

\* Two more fleets: seven equal available drivers (three tiers), and a
\* fleet in which nobody is available; behaviours of FleetOps client
\* operations on either.
FleetOps == 2
WideTable ==
  [d \in 1 .. 7 |->
     [rating10 |-> 0, status |-> "available", vehicle_type |-> "SUV",
      history |-> NoHistory]]
BareTable ==
  [d \in 1 .. 3 |->
     [rating10 |-> 0,
      status |-> IF d = 1 THEN "on_trip" ELSE IF d = 2 THEN "banned" ELSE "pending_approval",
      vehicle_type |-> "SUV", history |-> NoHistory]]

FleetInit ==
  /\ engine \in {"trips", "tow"}
  /\ fleet \in {WideTable, BareTable}
  /\ trip = [t \in TripIds |-> [status |-> "none", driver_id |-> NoDriver,
                                vehicle_type |-> "SUV"]]
  /\ offers = {}
  /\ nextOfferId = 1
  /\ proc = [p \in Procs |-> Idle]
  /\ opsLeft = FleetOps
  /\ scope = {1}
  /\ escCount = [t \in TripIds |-> 0]

\* A request in the middle of its first tier: two of its three providers
\* have rejected, the third has not answered; a second request is yet to be
\* booked.  MidOps client operations follow.
MidOps == 1
MidInit ==
  /\ engine \in {"trips", "tow"}
  /\ fleet = WideTable
  /\ trip = [t \in TripIds |->
               [status |-> IF t = 1 THEN "searching" ELSE "none",
                driver_id |-> NoDriver, vehicle_type |-> "SUV"]]
  /\ offers = {[id |-> k, trip_id |-> 1, driver_id |-> k,
                status |-> IF k < TIER_SIZE THEN "rejected" ELSE "pending",
                tier |-> 1, age |-> 0] : k \in 1 .. TIER_SIZE}
  /\ nextOfferId = TIER_SIZE + 1
  /\ proc = [p \in Procs |-> Idle]
  /\ opsLeft = MidOps
  /\ scope = {1, 2}
  /\ escCount = [t \in TripIds |-> 0]

\* A fleet with two eligible drivers (the third is on a trip); behaviours of
\* PairOps client operations on it or on the four eligible drivers.
PairOps == 3
PairTable ==
  [d \in 1 .. 3 |->
     [rating10 |-> 0, status |-> IF d = 3 THEN "on_trip" ELSE "available",
      vehicle_type |-> "SUV", history |-> NoHistory]]

PairInit ==
  /\ engine \in {"trips", "tow"}
  /\ fleet \in {PairTable, DriverTable}
  /\ trip = [t \in TripIds |-> [status |-> "none", driver_id |-> NoDriver,
                                vehicle_type |-> "SUV"]]
  /\ offers = {}
  /\ nextOfferId = 1
  /\ proc = [p \in Procs |-> Idle]
  /\ opsLeft = PairOps
  /\ scope = {1}
  /\ escCount = [t \in TripIds |-> 0]

\* Two requests booked one after the other, each in its first tier: some of
\* the offers have been rejected, at least one per request has not been
\* answered, and the second request's offers are no older than the first's.
\* QuietOps manual sweeps follow, with no other traffic and no time passing.
QuietOps == 2
QuietInit ==
  /\ engine = "trips"
  /\ fleet \in {WideTable, PairTable}
  /\ trip = [t \in TripIds |-> [status |-> "searching", driver_id |-> NoDriver,
                                vehicle_type |-> "SUV"]]
  /\ \E first \in {create_offers_for_tier({}, 1, 1,
                       Slice(rank_drivers(engine, trip, {}, "SUV"), 0, TIER_SIZE), 1)} :
     \E both \in {create_offers_for_tier(first, Cardinality(first) + 1, 2,
                       Slice(rank_drivers(engine, trip, first, "SUV"), 0, TIER_SIZE), 1)} :
     \E answered \in SUBSET IdsOf(both),
        age \in [TripIds -> {0, ESCALATION_MINUTES, AgeCap}] :
          /\ \A t \in TripIds : \E o \in both : o.trip_id = t /\ o.id \notin answered
          /\ age[2] <= age[1]
          /\ offers = {[o EXCEPT !.status = IF o.id \in answered THEN "rejected"
                                             ELSE "pending",
                                 !.age = age[o.trip_id]] : o \in both}
          /\ nextOfferId = Cardinality(both) + 1
  /\ proc = [p \in Procs |-> Idle]
  /\ opsLeft = QuietOps
  /\ scope = {}
  /\ escCount = [t \in TripIds |-> 0]

\* Two requests booked one after the other on the four eligible drivers,
\* every offer unanswered: drivers 1 and 2 hold an offer of each request.
\* TwoOps client operations follow.
TwoOps == 1
TwoInit ==
  /\ engine \in {"trips", "tow"}
  /\ fleet = DriverTable
  /\ trip = [t \in TripIds |-> [status |-> "searching", driver_id |-> NoDriver,
                                vehicle_type |-> "SUV"]]
  /\ \E first \in {create_offers_for_tier({}, 1, 1,
                       Slice(rank_drivers(engine, trip, {}, "SUV"), 0, TIER_SIZE), 1)} :
     \E both \in {create_offers_for_tier(first, Cardinality(first) + 1, 2,
                       Slice(rank_drivers(engine, trip, first, "SUV"), 0, TIER_SIZE), 1)} :
     \E age \in [TripIds -> {0, AgeCap}] :
          /\ age[2] <= age[1]
          /\ offers = {[o EXCEPT !.age = age[o.trip_id]] : o \in both}
          /\ nextOfferId = Cardinality(both) + 1
  /\ proc = [p \in Procs |-> Idle]
  /\ opsLeft = TwoOps
  /\ scope = {}
  /\ escCount = [t \in TripIds |-> 0]

\* Fleets for the ranking: four stored drivers whose rating, history,
\* status and vehicle type vary; history is in minutes since the last trip.
\* Request 1 asks for an SUV, request 2 for an SUV or a Sedan.  RankOps
\* client operations follow.
RankOps == 2
Hours == {3, 4, 5, 24, 25, 72, 73, 168, 169}
Row(r, s, v, h) == [rating10 |-> r, status |-> s, vehicle_type |-> v, history |-> h]
RankTables ==
  {<<d1, d2, d3, d4>> :
     d1 \in {Row(40, "available", "SUV", h) : h \in {NoHistory} \cup {n * 60 : n \in Hours}},
     d2 \in {Row(r, "available", "SUV", h) : r \in {0, 40, 45}, h \in {NoHistory, 169 * 60}},
     d3 \in {Row(45, "available", v, NoHistory) : v \in {"SUV", "Sedan"}}
            \cup {Row(45, s, "SUV", NoHistory) :
                    s \in {"on_trip", "banned", "pending_approval", "rejected"}},
     d4 \in {Row(r, "available", "SUV", h) : r \in {40, 45}, h \in {NoHistory, 25 * 60}}}

RankInit ==
  /\ engine \in {"trips", "tow"}
  /\ fleet \in RankTables
  /\ \E v \in {"SUV", "Sedan"} :
        trip = [t \in TripIds |-> [status |-> "none", driver_id |-> NoDriver,
                                   vehicle_type |-> IF t = 1 THEN "SUV" ELSE v]]
  /\ offers = {}
  /\ nextOfferId = 1
  /\ proc = [p \in Procs |-> Idle]
  /\ opsLeft = RankOps
  /\ scope = {1, 2}
  /\ escCount = [t \in TripIds |-> 0]

\* ------------------------------------------------------------ createRequest
\* create_booking_request / create_tow_booking_request, first commit.
CreateSave(p, t) ==
  /\ p \in Clients /\ Begin(p)
  /\ t \in scope /\ trip[t].status = "none"
  /\ trip' = [trip EXCEPT ![t].status = "searching"]
  /\ proc' = [proc EXCEPT ![p] = [Call("create", NoOffer, NoDriver, t) EXCEPT !.pc = "cr_rank"]]
  /\ UNCHANGED <<engine, fleet, offers, nextOfferId, scope, escCount>>

\* Mutant of CreateOffers: every ranked driver gets a tier 1 offer.
CreateOffersWholeRanking(p) ==
  /\ proc[p].pc = "cr_rank"
  /\ LET t == proc[p].trip
         ranked == rank_drivers(engine, trip, offers, trip[t].vehicle_type)
     IN IF ranked = <<>>
        THEN /\ trip' = [trip EXCEPT ![t].status = "no_drivers_found"]
             /\ UNCHANGED <<offers, nextOfferId>>
        ELSE /\ offers' = create_offers_for_tier(offers, nextOfferId, t, ranked, 1)
             /\ nextOfferId' = nextOfferId + Len(ranked)
             /\ UNCHANGED trip
  /\ proc' = [proc EXCEPT ![p] = Finish(proc[p], "ok")]
  /\ UNCHANGED <<engine, fleet, opsLeft, scope, escCount>>

\* create_booking_request: rank, then no_drivers_found or the tier 1 offers.
CreateOffers(p) ==
  /\ proc[p].pc = "cr_rank"
  /\ LET t == proc[p].trip
         ranked == rank_drivers(engine, trip, offers, trip[t].vehicle_type)
         tier_1 == Slice(ranked, 0, TIER_SIZE)
     IN IF ranked = <<>>
        THEN /\ trip' = [trip EXCEPT ![t].status = "no_drivers_found"]
             /\ UNCHANGED <<offers, nextOfferId>>
        ELSE /\ offers' = create_offers_for_tier(offers, nextOfferId, t, tier_1, 1)
             /\ nextOfferId' = nextOfferId + Len(tier_1)
             /\ UNCHANGED trip
  /\ proc' = [proc EXCEPT ![p] = Finish(proc[p], "ok")]
  /\ UNCHANGED <<engine, fleet, opsLeft, scope, escCount>>

\* ------------------------------------------------------------ accept
\* Mutant of AcceptCommit: only the other pending offers are deleted.
AcceptCommitPendingOnly(p) ==
  LET o == proc[p].offer
      t == proc[p].trip
  IN IF ~Exists(o)
     THEN /\ proc' = [proc EXCEPT ![p] = Finish(proc[p], "error")]
          /\ UNCHANGED <<trip, offers>>
     ELSE /\ trip' = [trip EXCEPT ![t].status = "accepted", ![t].driver_id = proc[p].drv]
          /\ offers' = ({x \in offers : x.trip_id # t \/ x.status # "pending"}
                           \ {OfferById(o)})
                         \cup {[OfferById(o) EXCEPT !.status = "accepted"]}
          /\ proc' = [proc EXCEPT ![p] = Finish(proc[p], "ok")]

\* The commit of an acceptance: UPDATE trip, UPDATE the offer (StaleDataError
\* when the row is gone), DELETE every other offer of the trip.
AcceptCommit(p) ==
  LET o == proc[p].offer
      t == proc[p].trip
  IN IF ~Exists(o)
     THEN /\ proc' = [proc EXCEPT ![p] = Finish(proc[p], "error")]
          /\ UNCHANGED <<trip, offers>>
     ELSE /\ trip' = [trip EXCEPT ![t].status = "accepted", ![t].driver_id = proc[p].drv]
          /\ offers' = (offers \ OffersOf(t))
                         \cup {[OfferById(o) EXCEPT !.status = "accepted"]}
          /\ proc' = [proc EXCEPT ![p] = Finish(proc[p], "ok")]

\* accept_trip_offer / accept_tow_offer: the offer is read and checked.
AcceptOffer(p, o, d) ==
  /\ p \in Clients /\ Begin(p)
  /\ proc' = [proc EXCEPT ![p] =
       IF ~Exists(o) \/ OfferById(o).driver_id # d
       THEN Finish(Call("accept", o, d, NoTrip), "notfound")
       ELSE IF OfferById(o).status # "pending"
       THEN Finish(Call("accept", o, d, OfferById(o).trip_id), "invalid")
       ELSE [Call("accept", o, d, OfferById(o).trip_id) EXCEPT !.pc = "acc_trip"]]
  /\ UNCHANGED <<engine, fleet, trip, offers, nextOfferId, scope, escCount>>

\* Mutant of AcceptTrip: the lost race also deletes the caller's stale offer.
AcceptTripCleansUp(p) ==
  /\ proc[p].pc = "acc_trip"
  /\ IF trip[proc[p].trip].status # "searching"
     THEN /\ proc' = [proc EXCEPT ![p] = Finish(proc[p], "conflict")]
          /\ offers' = {x \in offers : x.id # proc[p].offer}
          /\ UNCHANGED trip
     ELSE IF engine = "tow"
     THEN AcceptCommit(p)
     ELSE /\ proc' = [proc EXCEPT ![p].pc = "acc_write"]
          /\ UNCHANGED <<trip, offers>>
  /\ UNCHANGED <<engine, fleet, nextOfferId, opsLeft, scope, escCount>>

\* The trip is read and its status checked: session.get (passenger engine),
\* or SELECT ... FOR UPDATE held to the commit (tow engine).
AcceptTrip(p) ==
  /\ proc[p].pc = "acc_trip"
  /\ IF trip[proc[p].trip].status # "searching"
     THEN /\ proc' = [proc EXCEPT ![p] = Finish(proc[p], "conflict")]
          /\ UNCHANGED <<trip, offers>>
     ELSE IF engine = "tow"
     THEN AcceptCommit(p)
     ELSE /\ proc' = [proc EXCEPT ![p].pc = "acc_write"]
          /\ UNCHANGED <<trip, offers>>
  /\ UNCHANGED <<engine, fleet, nextOfferId, opsLeft, scope, escCount>>

\* accept_trip_offer after its unlocked status check.
AcceptWrite(p) ==
  /\ proc[p].pc = "acc_write"
  /\ AcceptCommit(p)
  /\ UNCHANGED <<engine, fleet, nextOfferId, opsLeft, scope, escCount>>

\* ------------------------------------------------------------ cancel
\* cancel_trip / cancel_tow_trip: the trip is read and checked.
CancelRead(p, t) ==
  /\ p \in Clients /\ Begin(p)
  /\ trip[t].status # "none"
  /\ proc' = [proc EXCEPT ![p] =
       IF trip[t].status \in {"completed", "cancelled"}
       THEN Finish(Call("cancel", NoOffer, NoDriver, t), "invalid")
       ELSE [Call("cancel", NoOffer, NoDriver, t) EXCEPT !.pc = "can_write"]]
  /\ UNCHANGED <<engine, fleet, trip, offers, nextOfferId, scope, escCount>>

\* Mutant of CancelWrite: only the pending offers are deleted.
CancelWritePendingOnly(p) ==
  /\ proc[p].pc = "can_write"
  /\ trip' = [trip EXCEPT ![proc[p].trip].status = "cancelled"]
  /\ offers' = {x \in offers : x.trip_id # proc[p].trip \/ x.status # "pending"}
  /\ proc' = [proc EXCEPT ![p] = Finish(proc[p], "ok")]
  /\ UNCHANGED <<engine, fleet, nextOfferId, opsLeft, scope, escCount>>

\* cancel_trip: status cancelled, every offer of the trip deleted, commit.
CancelWrite(p) ==
  /\ proc[p].pc = "can_write"
  /\ trip' = [trip EXCEPT ![proc[p].trip].status = "cancelled"]
  /\ offers' = offers \ OffersOf(proc[p].trip)
  /\ proc' = [proc EXCEPT ![p] = Finish(proc[p], "ok")]
  /\ UNCHANGED <<engine, fleet, nextOfferId, opsLeft, scope, escCount>>

\* ------------------------------------------------------------ escalation
\* attempt_trip_escalation returns to its caller: reject_trip_offer is done;
\* process_tier_escalation counts and goes on with the next trip, and
\* commits after the last.
\* Mutant of Return: the sweep counts every request it examined.
ReturnCountsExamined(p, escalated) ==
  LET rec == proc[p]
      n == rec.count + 1
  IN IF rec.op = "reject" THEN Finish(rec, "ok")
     ELSE IF Len(rec.queue) <= 1
     THEN Finish([rec EXCEPT !.count = n], "ok")
     ELSE [Idle EXCEPT !.pc = "esc_read", !.op = rec.op, !.count = n,
                       !.queue = Tail(rec.queue), !.trip = rec.queue[2]]

Return(p, escalated) ==
  LET rec == proc[p]
      n == IF escalated THEN rec.count + 1 ELSE rec.count
  IN IF rec.op = "reject" THEN Finish(rec, "ok")
     ELSE IF Len(rec.queue) <= 1
     THEN Finish([rec EXCEPT !.count = n], "ok")
     ELSE [Idle EXCEPT !.pc = "esc_read", !.op = rec.op, !.count = n,
                       !.queue = Tail(rec.queue), !.trip = rec.queue[2]]

\* Mutant of EscRead: a tier is over only when none of its offers is pending.
EscReadNoTimeout(p) ==
  /\ proc[p].pc = "esc_read"
  /\ LET t == proc[p].trip
         tos == OffersOf(t)
     IN IF (proc[p].op = "reject" /\ trip[t].status # "searching") \/ tos = {}
        THEN proc' = [proc EXCEPT ![p] = Return(p, FALSE)]
        ELSE \E latest_offer \in {o \in tos : \A x \in tos : x.tier <= o.tier} :
               LET current_tier == latest_offer.tier
                   in_tier == {o \in tos : o.tier = current_tier}
                   pending_in_tier == Cardinality({o \in in_tier : o.status = "pending"})
                   accepted_count == Cardinality({o \in in_tier : o.status = "accepted"})
                   should_escalate == pending_in_tier = 0
               IN proc' = [proc EXCEPT ![p] =
                    IF should_escalate /\ accepted_count = 0
                    THEN [proc[p] EXCEPT !.pc = "esc_rank", !.tier = current_tier]
                    ELSE Return(p, FALSE)]
  /\ UNCHANGED <<engine, fleet, trip, offers, nextOfferId, opsLeft, scope, escCount>>

\* attempt_trip_escalation lines 106-147 (after reject's status check, lines
\* 258-259): current tier, the two conditions, the accepted double check.
EscRead(p) ==
  /\ proc[p].pc = "esc_read"
  /\ LET t == proc[p].trip
         tos == OffersOf(t)
     IN IF (proc[p].op = "reject" /\ trip[t].status # "searching") \/ tos = {}
        THEN proc' = [proc EXCEPT ![p] = Return(p, FALSE)]
        ELSE \E latest_offer \in {o \in tos : \A x \in tos : x.tier <= o.tier} :
               LET current_tier == latest_offer.tier
                   in_tier == {o \in tos : o.tier = current_tier}
                   pending_in_tier == Cardinality({o \in in_tier : o.status = "pending"})
                   accepted_count == Cardinality({o \in in_tier : o.status = "accepted"})
                   should_escalate == latest_offer.age > ESCALATION_MINUTES
                                        \/ pending_in_tier = 0
               IN proc' = [proc EXCEPT ![p] =
                    IF should_escalate /\ accepted_count = 0
                    THEN [proc[p] EXCEPT !.pc = "esc_rank", !.tier = current_tier]
                    ELSE Return(p, FALSE)]
  /\ UNCHANGED <<engine, fleet, trip, offers, nextOfferId, opsLeft, scope, escCount>>

\* Mutant of EscRank: with no provider left the request is left searching.
EscRankNoCancel(p) ==
  /\ proc[p].pc = "esc_rank"
  /\ LET t == proc[p].trip
         all_ranked_drivers == rank_drivers(engine, trip, offers, trip[t].vehicle_type)
         start == proc[p].tier * TIER_SIZE
         next_batch == Slice(all_ranked_drivers, start, start + TIER_SIZE)
     IN IF next_batch # <<>>
        THEN proc' = [proc EXCEPT ![p].pc = "esc_write", ![p].batch = next_batch,
                        ![p].old = IdsOf({o \in OffersOf(t) : o.status = "pending"})]
        ELSE proc' = [proc EXCEPT ![p] = Return(p, FALSE)]
  /\ UNCHANGED <<engine, fleet, trip, offers, nextOfferId, opsLeft, scope, escCount>>

\* attempt_trip_escalation lines 149-163 and 169-181: re-rank and cut the
\* batch; a non-empty batch selects the pending offers to delete, an empty
\* one cancels the trip and deletes all its offers.
EscRank(p) ==
  /\ proc[p].pc = "esc_rank"
  /\ LET t == proc[p].trip
         all_ranked_drivers == rank_drivers(engine, trip, offers, trip[t].vehicle_type)
         start == proc[p].tier * TIER_SIZE
         next_batch == Slice(all_ranked_drivers, start, start + TIER_SIZE)
     IN IF next_batch # <<>>
        THEN /\ proc' = [proc EXCEPT ![p].pc = "esc_write", ![p].batch = next_batch,
                           ![p].old = IdsOf({o \in OffersOf(t) : o.status = "pending"})]
             /\ UNCHANGED <<trip, offers, escCount>>
        ELSE /\ trip' = [trip EXCEPT ![t].status = "cancelled"]
             /\ offers' = offers \ OffersOf(t)
             /\ escCount' = [escCount EXCEPT ![t] = @ + 1]
             /\ proc' = [proc EXCEPT ![p] = Return(p, TRUE)]
  /\ UNCHANGED <<engine, fleet, nextOfferId, opsLeft, scope>>

\* attempt_trip_escalation lines 164-168: delete the selected offers, insert
\* the next tier's offers, commit (create_offers_for_tier).
\* Mutant of EscWrite: every pending offer is deleted, of whatever request.
EscWriteEveryPending(p) ==
  /\ proc[p].pc = "esc_write"
  /\ LET t == proc[p].trip
         kept == {o \in offers : o.status # "pending"}
     IN /\ offers' = create_offers_for_tier(kept, nextOfferId, t, proc[p].batch,
                                            proc[p].tier + 1)
        /\ nextOfferId' = nextOfferId + Len(proc[p].batch)
        /\ escCount' = [escCount EXCEPT ![t] = @ + 1]
  /\ proc' = [proc EXCEPT ![p] = Return(p, TRUE)]
  /\ UNCHANGED <<engine, fleet, trip, opsLeft, scope>>

EscWrite(p) ==
  /\ proc[p].pc = "esc_write"
  /\ LET t == proc[p].trip
         kept == {o \in offers : o.id \notin proc[p].old}
     IN /\ offers' = create_offers_for_tier(kept, nextOfferId, t, proc[p].batch,
                                            proc[p].tier + 1)
        /\ nextOfferId' = nextOfferId + Len(proc[p].batch)
        /\ escCount' = [escCount EXCEPT ![t] = @ + 1]
  /\ proc' = [proc EXCEPT ![p] = Return(p, TRUE)]
  /\ UNCHANGED <<engine, fleet, trip, opsLeft, scope>>

\* ------------------------------------------------------------ reject
\* reject_trip_offer / reject_tow_offer lines 241-254: the offer is marked
\* rejected, whatever its status, and committed; the escalation check follows.
\* Mutant of RejectOffer: the offer is marked rejected and the call returns,
\* with no escalation check (the legacy handler in app/routers/trips.py).
RejectOfferNoEscalation(p, o, d) ==
  /\ p \in Clients /\ Begin(p)
  /\ IF ~Exists(o) \/ OfferById(o).driver_id # d
     THEN /\ proc' = [proc EXCEPT ![p] = Finish(Call("reject", o, d, NoTrip), "notfound")]
          /\ UNCHANGED offers
     ELSE /\ offers' = (offers \ {OfferById(o)})
                         \cup {[OfferById(o) EXCEPT !.status = "rejected"]}
          /\ proc' = [proc EXCEPT ![p] =
               Finish(Call("reject", o, d, OfferById(o).trip_id), "ok")]
  /\ UNCHANGED <<engine, fleet, trip, nextOfferId, scope, escCount>>

RejectOffer(p, o, d) ==
  /\ p \in Clients /\ Begin(p)
  /\ IF ~Exists(o) \/ OfferById(o).driver_id # d
     THEN /\ proc' = [proc EXCEPT ![p] = Finish(Call("reject", o, d, NoTrip), "notfound")]
          /\ UNCHANGED offers
     ELSE /\ offers' = (offers \ {OfferById(o)})
                         \cup {[OfferById(o) EXCEPT !.status = "rejected"]}
          /\ proc' = [proc EXCEPT ![p] =
               [Call("reject", o, d, OfferById(o).trip_id) EXCEPT !.pc = "esc_read"]]
  /\ UNCHANGED <<engine, fleet, trip, nextOfferId, scope, escCount>>

\* ------------------------------------------------------------ sweep
SearchingTrips(tr) ==
  LET RECURSIVE From(_)
      From(t) == IF t \notin TripIds THEN <<>>
                 ELSE (IF tr[t].status = "searching" THEN <<t>> ELSE <<>>) \o From(t + 1)
  IN From(1)

\* process_tier_escalation line 190: the searching trips are enumerated.
\* Run by the scheduler's job every minute.
SweepSelect(p) ==
  /\ p = Sched /\ Begin(p)
  /\ LET active_trips == SearchingTrips(trip)
     IN proc' = [proc EXCEPT ![p] =
          IF active_trips = <<>>
          THEN Finish(Call("sweep", NoOffer, NoDriver, NoTrip), "ok")
          ELSE [Call("sweep", NoOffer, NoDriver, active_trips[1])
                  EXCEPT !.pc = "esc_read", !.queue = active_trips]]
  /\ UNCHANGED <<engine, fleet, trip, offers, nextOfferId, scope, escCount>>

\* check_and_escalate_tiers (POST /trips/check-escalation): the same sweep,
\* run on a client's request by the passenger engine.
ManualSweep(p) ==
  /\ p \in Clients /\ engine = "trips" /\ Begin(p)
  /\ LET active_trips == SearchingTrips(trip)
     IN proc' = [proc EXCEPT ![p] =
          IF active_trips = <<>>
          THEN Finish(Call("sweep", NoOffer, NoDriver, NoTrip), "ok")
          ELSE [Call("sweep", NoOffer, NoDriver, active_trips[1])
                  EXCEPT !.pc = "esc_read", !.queue = active_trips]]
  /\ UNCHANGED <<engine, fleet, trip, offers, nextOfferId, scope, escCount>>

\* ------------------------------------------------------------ clock
Tick ==
  /\ \E o \in offers : o.age < AgeCap
  /\ offers' = {[o EXCEPT !.age = Min(o.age + TickMinutes, AgeCap)] : o \in offers}
  /\ UNCHANGED <<engine, fleet, trip, nextOfferId, proc, opsLeft, scope, escCount>>

Next ==
  \/ \E p \in Clients, t \in TripIds : CreateSave(p, t)
  \/ \E p \in Procs : CreateOffers(p)
  \/ \E p \in Clients, o \in 1 .. nextOfferId - 1 : \E d \in Callers(o) : AcceptOffer(p, o, d)
  \/ \E p \in Procs : AcceptTrip(p)
  \/ \E p \in Procs : AcceptWrite(p)
  \/ \E p \in Clients, o \in 1 .. nextOfferId - 1 : \E d \in Callers(o) : RejectOffer(p, o, d)
  \/ \E p \in Clients, t \in TripIds : CancelRead(p, t)
  \/ \E p \in Procs : CancelWrite(p)
  \/ \E p \in Procs : SweepSelect(p)
  \/ \E p \in Procs : EscRead(p)
  \/ \E p \in Procs : EscRank(p)
  \/ \E p \in Procs : EscWrite(p)
  \/ Tick

Spec == Init /\ [][Next]_vars
FleetSpec == FleetInit /\ [][Next]_vars
MidSpec == MidInit /\ [][Next]_vars
PairSpec == PairInit /\ [][Next]_vars

\* Sweeps only: no booking, answer, cancellation or clock step in between.
QuietNext ==
  \/ \E p \in Clients : ManualSweep(p)
  \/ \E p \in Procs : EscRead(p)
  \/ \E p \in Procs : EscRank(p)
  \/ \E p \in Procs : EscWrite(p)

QuietSpec == QuietInit /\ [][QuietNext]_vars

\* The handlers that work on booked requests, the sweep and the clock.
TwoNext ==
  \/ \E p \in Clients, o \in 1 .. nextOfferId - 1 : \E d \in Callers(o) : AcceptOffer(p, o, d)
  \/ \E p \in Procs : AcceptTrip(p)
  \/ \E p \in Procs : AcceptWrite(p)
  \/ \E p \in Clients, o \in 1 .. nextOfferId - 1 : \E d \in Callers(o) : RejectOffer(p, o, d)
  \/ \E p \in Clients, t \in TripIds : CancelRead(p, t)
  \/ \E p \in Procs : CancelWrite(p)
  \/ \E p \in Procs : SweepSelect(p)
  \/ \E p \in Procs : EscRead(p)
  \/ \E p \in Procs : EscRank(p)
  \/ \E p \in Procs : EscWrite(p)
  \/ Tick

TwoSpec == TwoInit /\ [][TwoNext]_vars

\* Booking and cancelling only: the calls that rank for a new request, and
\* the requester's cancel that may fall between a booking's two commits.
RankNext ==
  \/ \E p \in Clients, t \in TripIds : CreateSave(p, t)
  \/ \E p \in Procs : CreateOffers(p)
  \/ \E p \in Clients, t \in TripIds : CancelRead(p, t)
  \/ \E p \in Procs : CancelWrite(p)

RankSpec == RankInit /\ [][RankNext]_vars

\* ------------------------------------------------------------ failures
\* A statement of attempt_trip_escalation raises inside the sweep: the loop
\* of process_tier_escalation has no handler, the job's except clause ends
\* the sweep, the remaining trips are not visited.  Taken here while the
\* sweep has advanced no trip yet, so that its transaction holds no change.
SweepFail(p) ==
  /\ proc[p].op = "sweep" /\ proc[p].pc \in {"esc_read", "esc_rank", "esc_write"}
  /\ proc[p].count = 0
  /\ proc' = [proc EXCEPT ![p] = Finish(proc[p], "error")]
  /\ UNCHANGED <<engine, fleet, trip, offers, nextOfferId, opsLeft, scope, escCount>>

\* create_tow_offers_for_tier lines 61-76 with send_push_notification lines
\* 22-34: the offers are committed, then the device lookup, which stands
\* outside the try block of the sender, raises; the caller ends in the error.
NotifyLookupFails(p) ==
  /\ engine = "tow"
  /\ proc[p].pc \in {"cr_rank", "esc_write"}
  /\ LET t == proc[p].trip
         ranked == rank_drivers(engine, trip, offers, trip[t].vehicle_type)
         made == IF proc[p].pc = "cr_rank" THEN Slice(ranked, 0, TIER_SIZE)
                 ELSE proc[p].batch
         tier == IF proc[p].pc = "cr_rank" THEN 1 ELSE proc[p].tier + 1
         kept == IF proc[p].pc = "cr_rank" THEN offers
                 ELSE {o \in offers : o.id \notin proc[p].old}
     IN /\ made # <<>>
        /\ offers' = create_offers_for_tier(kept, nextOfferId, t, made, tier)
        /\ nextOfferId' = nextOfferId + Len(made)
        /\ escCount' = IF proc[p].pc = "cr_rank" THEN escCount
                       ELSE [escCount EXCEPT ![t] = @ + 1]
  /\ proc' = [proc EXCEPT ![p] = Finish(proc[p], "error")]
  /\ UNCHANGED <<engine, fleet, trip, opsLeft, scope>>

\* The handlers together with the two failures, from the mid-tier state.
FaultNext ==
  \/ Next
  \/ \E p \in Procs : SweepFail(p)
  \/ \E p \in Procs : NotifyLookupFails(p)

FaultSpec == MidInit /\ [][FaultNext]_vars

\* ------------------------------------------------------------ fairness
\* The scheduler's job comes round again and again, the clock advances, and
\* a handler that has started runs on to its return.
Continue(p) ==
  \/ CreateOffers(p) \/ AcceptTrip(p) \/ AcceptWrite(p) \/ CancelWrite(p)
  \/ EscRead(p) \/ EscRank(p) \/ EscWrite(p)

FairSpec ==
  /\ Init /\ [][Next]_vars
  /\ WF_vars(Tick)
  /\ WF_vars(SweepSelect(Sched))
  /\ \A p \in Procs : WF_vars(Continue(p))

\* ------------------------------------------------------------ claims
\* Step predicates: handler p returns / the call just served by slot p.
Returns(p, o) == proc[p].op = o /\ proc[p].pc # "idle" /\ proc'[p].pc = "idle"
Began(p, o) ==
  /\ opsLeft' < opsLeft /\ proc[p].pc = "idle" /\ proc'[p].op = o
  /\ (p = "c2") <=> (proc["c1"].pc # "idle")
Accepted(t) == {o \in OffersOf(t) : o.status = "accepted"}

\* C1 (as claimed): of the accept calls racing for one searching request
\* exactly one succeeds and every other fails with Conflict: a call that
\* returns once another provider has won the request returns Conflict; a call that
\* returns ok found the request searching and leaves it accepted, assigned
\* to the caller, with exactly one accepted offer, the caller's.
C1_AtMostOneWinner ==
  [][\A p \in Clients :
       (Returns(p, "accept") /\ trip[proc[p].trip].driver_id # proc[p].drv) =>
       LET t == proc[p].trip IN
       /\ trip[t].status = "accepted" => proc'[p].res = "conflict"
       /\ proc'[p].res = "ok" =>
            /\ trip[t].status = "searching"
            /\ trip'[t].status = "accepted"
            /\ trip'[t].driver_id = proc[p].drv
            /\ \E a \in offers' : /\ {x \in offers' : x.trip_id = t /\ x.status = "accepted"} = {a}
                                  /\ a.driver_id = proc[p].drv]_vars

\* C2: every request has at most one accepted offer, and a request with an
\* accepted offer has status accepted and is assigned to that offer's driver.
C2_AcceptedConsistent ==
  \A t \in TripIds : \A a \in Accepted(t) :
     /\ Accepted(t) = {a}
     /\ trip[t].status = "accepted"
     /\ trip[t].driver_id = a.driver_id

\* C2 witness: an accept call has returned ok and its offer is the request's
\* accepted offer.
C2_Witness ==
  \E t \in TripIds : /\ Accepted(t) # {}
                     /\ trip[t].status = "accepted"
                     /\ \E p \in Clients : proc[p].op = "accept" /\ proc[p].res = "ok"

\* A step of an accept call or of an escalation check (rejection-triggered
\* or the sweep's) of process p.
EngineStep(p) ==
  /\ proc[p].pc \in {"acc_trip", "acc_write", "esc_read", "esc_rank", "esc_write"}
  /\ proc'[p] # proc[p]

\* C3 (as claimed): once a request is accepted, no step of an accept call or
\* of an escalation check changes its status or driver, deletes its accepted
\* offer or adds an offer to it.
C3_AcceptanceFinal ==
  [][\A t \in TripIds, p \in Procs :
       (trip[t].status = "accepted" /\ EngineStep(p)) =>
          /\ trip'[t] = trip[t]
          /\ Accepted(t) \subseteq offers'
          /\ IdsOf({o \in offers' : o.trip_id = t}) \subseteq IdsOf(OffersOf(t))]_vars

\* C4: an accept call that fails (offer missing or not the caller's: notfound;
\* offer not pending: invalid; request not searching: conflict) changes no
\* request and no offer.
C4_FailedAcceptNoMutation ==
  [][\A p \in Clients :
       ((Returns(p, "accept") \/ Began(p, "accept"))
          /\ proc'[p].pc = "idle"
          /\ proc'[p].res \in {"notfound", "invalid", "conflict"})
       => (trip' = trip /\ offers' = offers)]_vars

\* C4 witness: an accept call has lost the race and returned Conflict, and
\* the winner's accepted offer is in place.
C4_Witness ==
  \E p \in Clients, t \in TripIds :
     /\ proc[p].op = "accept" /\ proc[p].pc = "idle" /\ proc[p].res = "conflict"
     /\ trip[t].status = "accepted" /\ Accepted(t) # {}

\* C5: an accept call that returns ok leaves the request accepted and
\* assigned to the caller, its offer accepted, and no other offer of the
\* request, whatever its tier or status.
C5_AcceptEffect ==
  [][\A p \in Clients :
       (Returns(p, "accept") /\ proc'[p].res = "ok") =>
          LET t == proc[p].trip IN
          /\ trip'[t].status = "accepted"
          /\ trip'[t].driver_id = proc[p].drv
          /\ {x \in offers' : x.trip_id = t}
               = {[OfferById(proc[p].offer) EXCEPT !.status = "accepted"]}]_vars

\* C5 witness: a tier 2 offer has been accepted after a tier 1 offer was
\* rejected, and it is the request's only offer.
C5_Witness ==
  \E p \in Clients, t \in TripIds, a \in offers :
     /\ proc[p].op = "accept" /\ proc[p].pc = "idle" /\ proc[p].res = "ok"
     /\ OffersOf(t) = {a} /\ a.status = "accepted" /\ a.tier = 2
     /\ \E q \in Clients : proc[q].op = "reject" /\ proc[q].res = "ok"

\* C6 (as claimed): a reject call on an offer of the caller that is already
\* rejected or accepted fails with Conflict and changes nothing.
C6_IdempotentReject ==
  [][\A p \in Clients :
       (Began(p, "reject") /\ proc'[p].offer # NoOffer
          /\ OfferById(proc'[p].offer).status \in {"rejected", "accepted"})
       => (proc'[p].res = "conflict" /\ trip' = trip /\ offers' = offers)]_vars

\* C7 (as claimed): cancel excludes accept and escalation on the same
\* request: once a cancel call has answered ok, no step of an accept or an
\* escalation that ran alongside it changes the cancelled request or gives
\* it an offer.
C7_CancelExclusive ==
  [][\A p \in Clients, q \in Procs :
       (proc[p].pc = "idle" /\ proc[p].op = "cancel" /\ proc[p].res = "ok"
          /\ EngineStep(q)) =>
          LET t == proc[p].trip IN
          /\ trip'[t] = trip[t]
          /\ IdsOf({o \in offers' : o.trip_id = t}) \subseteq IdsOf(OffersOf(t))]_vars

\* C8 (as claimed): escalations of one request are serialized: no provider
\* holds two offers at the same tier of the same request.
C8_OneBatchPerTier ==
  \A a \in offers, b \in offers :
     (a.trip_id = b.trip_id /\ a.driver_id = b.driver_id /\ a.tier = b.tier)
        => a.id = b.id

\* The eligible providers of a request, and the bound of C9.
EligibleCount(t) == Len(Eligible(engine, trip[t].vehicle_type, 1))
CeilDiv(n, k) == (n + k - 1) \div k

\* C9 (as claimed): a request with N eligible providers is escalated at most
\* ceil(N / TIER_SIZE) times before it is accepted or terminal: an escalation
\* performed on a searching request never brings its count above the bound.
C9_EscalationBound ==
  [][\A t \in TripIds :
       (trip[t].status = "searching" /\ escCount'[t] > escCount[t])
          => escCount'[t] <= CeilDiv(EligibleCount(t), TIER_SIZE)]_vars

NewOffers(t) == {o \in offers' : o.trip_id = t /\ o.id \notin IdsOf(offers)}
TopTier(t) ==
  IF OffersOf(t) = {} THEN 0
  ELSE CHOOSE k \in {o.tier : o \in OffersOf(t)} : \A o \in OffersOf(t) : o.tier <= k

\* C11 (as claimed): the tiers of a request are created in order without
\* gaps or repeats: createRequest creates tier 1, and a step that creates
\* offers for a request that has offers up to tier k creates them at tier
\* k + 1.
C11_TierContiguity ==
  [][\A t \in TripIds :
       NewOffers(t) # {} =>
          /\ (\E p \in Procs : proc[p].pc = "cr_rank" /\ proc[p].trip = t)
                => \A o \in NewOffers(t) : o.tier = 1
          /\ OffersOf(t) # {} => \A o \in NewOffers(t) : o.tier = TopTier(t) + 1]_vars

\* C12 (as claimed): the pending offers of a request all have the same
\* tier, the highest tier at which the request has an offer.
C12_PendingAtTopTier ==
  \A o \in offers : o.status = "pending" => o.tier = TopTier(o.trip_id)

\* C13 (as claimed): a provider holds at most one pending offer of one
\* request.
C13_OnePendingPerProvider ==
  \A a \in offers, b \in offers :
     (a.status = "pending" /\ b.status = "pending"
        /\ a.trip_id = b.trip_id /\ a.driver_id = b.driver_id) => a.id = b.id

\* C14 (as claimed): a request is immutable once terminal: no step changes
\* the status or the assigned driver of a request that is no_drivers_found,
\* no_drivers_available or cancelled.
C14_TerminalImmutable ==
  [][\A t \in TripIds :
       trip[t].status \in {"no_drivers_found", "no_drivers_available", "cancelled"}
          => /\ trip'[t].status = trip[t].status
             /\ trip'[t].driver_id = trip[t].driver_id]_vars

\* C15 (as claimed): an accept call whose offer is missing, not the
\* caller's or not pending fails at once with an offer error (notfound,
\* invalid), before the request is read; a call that goes on has a pending
\* offer of the caller, and it returns Conflict when the request is not
\* searching and ok in every other case.
C15_AcceptOutcome ==
  [][\A p \in Clients :
       /\ Began(p, "accept") =>
            IF proc'[p].pc = "idle"
            THEN proc'[p].res \in {"notfound", "invalid"}
            ELSE /\ Exists(proc'[p].offer)
                 /\ OfferById(proc'[p].offer).driver_id = proc'[p].drv
                 /\ OfferById(proc'[p].offer).status = "pending"
       /\ Returns(p, "accept") =>
            /\ proc'[p].res \in {"conflict", "ok"}
            /\ proc'[p].res = "conflict" <=> trip[proc[p].trip].status # "searching"]_vars

\* The offer a returning reject call was about: the one the call carries, or
\* the one whose row turns rejected in the very step the call returns in.
RejectedBy(p) ==
  IF proc[p].pc # "idle"
  THEN {o \in offers : o.id = proc[p].offer}
  ELSE {o \in offers : o.status # "rejected"
                          /\ \E n \in offers' : n.id = o.id /\ n.status = "rejected"}

\* C16: a successful reject runs the escalation check itself: when it
\* returns, a request that is still searching has a pending offer at the
\* rejected offer's tier (it was not the last one) or at a later tier
\* (created by the reject's escalation); otherwise the request is no longer
\* searching.
C16_RejectEscalates ==
  [][\A p \in Clients :
       ((Returns(p, "reject") \/ (Began(p, "reject") /\ proc'[p].pc = "idle"))
          /\ proc'[p].res = "ok") =>
          \A r \in RejectedBy(p) :
             trip'[r.trip_id].status = "searching" =>
                \E o \in offers' : /\ o.trip_id = r.trip_id /\ o.status = "pending"
                                   /\ o.tier >= r.tier]_vars

\* C16 witness: the last pending offer of tier 1 was rejected and, with no
\* sweep having run, the reject has returned and tier 2 is on offer.
C16_Witness ==
  /\ proc[Sched].op = "none"
  /\ \E p \in Clients : proc[p].op = "reject" /\ proc[p].pc = "idle" /\ proc[p].res = "ok"
  /\ trip[1].status = "searching"
  /\ \A o \in OffersOf(1) : o.tier = 1 => o.status = "rejected"
  /\ \E o \in OffersOf(1) : o.tier = 2 /\ o.status = "pending" /\ o.age = 0

\* ------------------------------------------------------------ ranking claims
\* The ranking a booking call in flight is about to compute, and the rows
\* it scores.
Booking(p) == proc[p].pc = "cr_rank"
RequestedClass(p) == trip[proc[p].trip].vehicle_type
Ranked(p) == rank_drivers(engine, trip, offers, RequestedClass(p))
Elems(q) == {q[i] : i \in 1 .. Len(q)}
EngineScore(d) == Score(engine, trip, offers, d)

\* The recency class and the score as stated: 40 / 30 / 20 / 10 / 0 by
\* the hours since the last assigned request, 50 with no history.
RecencyBonus(last) ==
  IF last = NoHistory THEN 50
  ELSE IF last > 168 * 60 THEN 40
  ELSE IF last > 72 * 60 THEN 30
  ELSE IF last > 24 * 60 THEN 20
  ELSE IF last > 4 * 60 THEN 10
  ELSE 0
StatedScore(d) ==
  fleet[d].rating10 + RecencyBonus(LastTrip(trip, d)) - 25 * ActiveOffers(offers, d)

\* C17 (as claimed): in both engines the score a booking's ranking gives a
\* provider is rating*10 plus the recency bonus (40 / 30 / 20 / 10 / 0, or 50
\* with no history) minus 25 for each of the provider's pending offers.
C17_ScoreFormula ==
  \A p \in Clients : Booking(p) =>
     \A d \in Elems(Ranked(p)) : EngineScore(d) = StatedScore(d)

\* C18: of two providers in the same recency class and with the same number
\* of pending offers, the one with the strictly higher rating never has the
\* lower score.
C18_RatingMonotone ==
  \A d \in DOMAIN fleet, e \in DOMAIN fleet :
     (/\ RecencyBonus(LastTrip(trip, d)) = RecencyBonus(LastTrip(trip, e))
      /\ ActiveOffers(offers, d) = ActiveOffers(offers, e)
      /\ fleet[d].rating10 > fleet[e].rating10)
        => EngineScore(d) >= EngineScore(e)

\* C18 witness: a second booking is about to rank two providers that both
\* hold a pending offer of the first, have the same recency class and
\* different ratings, and the higher rated one scores strictly higher.
C18_Witness ==
  \E p \in Clients : /\ Booking(p)
     /\ \E d \in Elems(Ranked(p)), e \in Elems(Ranked(p)) :
          /\ RecencyBonus(LastTrip(trip, d)) = RecencyBonus(LastTrip(trip, e))
          /\ ActiveOffers(offers, d) = 1 /\ ActiveOffers(offers, e) = 1
          /\ fleet[d].rating10 > fleet[e].rating10
          /\ EngineScore(d) > EngineScore(e)

\* C19 (as claimed): the ranking holds exactly the available providers of
\* the requested service class, each once, by non-increasing score, equal
\* scores in storage order.
C19_RankingContract ==
  \A p \in Clients : Booking(p) =>
     LET r == Ranked(p) IN
     /\ Elems(r) = {d \in DOMAIN fleet : /\ fleet[d].status = "available"
                                         /\ fleet[d].vehicle_type = RequestedClass(p)}
     /\ \A i \in 1 .. Len(r), j \in 1 .. Len(r) :
          /\ i # j => r[i] # r[j]
          /\ i < j => EngineScore(r[i]) >= EngineScore(r[j])
          /\ (i < j /\ EngineScore(r[i]) = EngineScore(r[j])) => r[i] < r[j]

C21_SweepIsolation ==
  [][Returns(Sched, "sweep") =>
       /\ Len(proc[Sched].queue) <= 1
       /\ proc'[Sched].res = "ok"]_vars

\* C22 (as claimed): a call that creates the offers of a tier ends as it does
\* when the notification succeeds, whatever happens to the notification: the
\* booking returns the request, the escalation reports the advance to the
\* reject or to the sweep.
C22_NotifyContained ==
  [][\A p \in Procs :
       (nextOfferId' > nextOfferId /\ proc'[p] # proc[p]) =>
          proc'[p] = IF proc[p].pc = "cr_rank" THEN Finish(proc[p], "ok")
                     ELSE Return(p, TRUE)]_vars

\* ------------------------------------------------------------ escalation claims
\* The offers of the request's current (highest) tier; the tier has no
\* pending offer; the tier is more than 10 minutes old (all of it, some of
\* it: the two differ only when a tier holds batches written at different
\* times).
TopOffers(t) == {o \in OffersOf(t) : o.tier = TopTier(t)}
NonePending(t) == \A o \in TopOffers(t) : o.status # "pending"
AllOld(t) == \A o \in TopOffers(t) : o.age > 10
SomeOld(t) == \E o \in TopOffers(t) : o.age > 10

\* C23: the check of a searching request that has offers goes on to escalate
\* if and only if no offer of the current tier is pending or the tier is
\* more than 10 minutes old.
C23_EscalatesIffOver ==
  [][\A p \in Procs :
       (/\ proc[p].pc = "esc_read" /\ proc'[p] # proc[p]
        /\ trip[proc[p].trip].status = "searching"
        /\ OffersOf(proc[p].trip) # {}) =>
          LET t == proc[p].trip IN
          /\ proc'[p].pc = "esc_rank" => (NonePending(t) \/ SomeOld(t))
          /\ (NonePending(t) \/ AllOld(t)) => proc'[p].pc = "esc_rank"]_vars

\* C23 witness: the sweep is escalating a request whose tier 1 offers are all
\* still pending and older than 10 minutes.
C23_Witness ==
  /\ proc[Sched].pc = "esc_rank" /\ proc[Sched].trip = 1 /\ proc[Sched].tier = 1
  /\ trip[1].status = "searching"
  /\ Cardinality(OffersOf(1)) = TIER_SIZE
  /\ \A o \in OffersOf(1) : o.tier = 1 /\ o.status = "pending" /\ o.age > 10

\* C24 (as claimed): an escalation from tier t re-ranks and takes the ranked
\* providers at positions 3t .. 3t + 2; with a non-empty batch, once it has
\* written, the pending offers of the request are exactly one offer at tier
\* t + 1 for each provider of the batch, and the request is searching.
C24_NextTierBatch ==
  [][\A p \in Procs :
       /\ (proc[p].pc = "esc_rank" /\ proc'[p].pc = "esc_write") =>
            LET r == rank_drivers(engine, trip, offers, trip[proc[p].trip].vehicle_type)
                b == proc'[p].batch
                t == proc[p].tier
            IN /\ Len(b) = Min(3, Len(r) - 3 * t) /\ Len(b) > 0
               /\ \A k \in 1 .. Len(b) : b[k] = r[3 * t + k]
       /\ (/\ proc[p].pc = "esc_write" /\ proc'[p] # proc[p]
           /\ trip[proc[p].trip].status = "searching") =>
            LET R == proc[p].trip
                b == proc[p].batch
                pend == {o \in offers' : o.trip_id = R /\ o.status = "pending"}
            IN /\ \A o \in pend : o.tier = proc[p].tier + 1
               /\ Cardinality(pend) = Len(b)
               /\ \A k \in 1 .. Len(b) : \E o \in pend : o.driver_id = b[k]
               /\ trip'[R].status = "searching"]_vars

\* C25: an escalation from tier t whose ranking has at most 3t providers
\* sets the request cancelled and removes every offer of it, whatever tier
\* and status.
C25_ExhaustionCancels ==
  [][\A p \in Procs :
       (/\ proc[p].pc = "esc_rank" /\ proc'[p] # proc[p]
        /\ Len(rank_drivers(engine, trip, offers, trip[proc[p].trip].vehicle_type))
             <= 3 * proc[p].tier) =>
          /\ trip'[proc[p].trip].status = "cancelled"
          /\ \A o \in offers' : o.trip_id # proc[p].trip]_vars

\* C25 witness: both eligible providers have rejected their tier 1 offers, no
\* sweep has run, and the request is cancelled without offers after its one
\* escalation.
C25_Witness ==
  /\ proc[Sched].op = "none"
  /\ \A p \in Clients : proc[p].pc = "idle" /\ proc[p].op = "reject" /\ proc[p].res = "ok"
  /\ trip[1].status = "cancelled"
  /\ OffersOf(1) = {}
  /\ escCount[1] = 1
  /\ nextOfferId = 3

\* C26 (as claimed): the escalation check of a request that is not searching
\* when the check runs does nothing: it does not go on to rank or to write.
C26_NoopUnlessSearching ==
  [][\A p \in Procs :
       (/\ proc[p].pc = "esc_read" /\ proc'[p] # proc[p]
        /\ trip[proc[p].trip].status # "searching") =>
          /\ proc'[p] = Return(p, FALSE)
          /\ trip' = trip /\ offers' = offers]_vars

\* C27: the escalation check of a searching request without offers changes
\* nothing and reports no advance; and a searching request is without offers
\* only while its booking has not yet returned.
C27_SearchingHasOffers ==
  [][/\ \A p \in Procs :
          (/\ proc[p].pc = "esc_read" /\ proc'[p] # proc[p]
           /\ trip[proc[p].trip].status = "searching"
           /\ OffersOf(proc[p].trip) = {}) =>
             /\ proc'[p] = Return(p, FALSE)
             /\ trip' = trip /\ offers' = offers
     /\ \A t \in TripIds :
          (trip'[t].status = "searching" /\ \A o \in offers' : o.trip_id # t) =>
             \E p \in Clients : proc'[p].pc = "cr_rank" /\ proc'[p].trip = t]_vars

\* C27 witness: the sweep has checked a request that was stored but had no
\* offers yet, and has returned with count 0; the booking is still to rank.
C27_Witness ==
  /\ trip[1].status = "searching" /\ OffersOf(1) = {}
  /\ \E p \in Clients : proc[p].pc = "cr_rank" /\ proc[p].trip = 1
  /\ proc[Sched].pc = "idle" /\ proc[Sched].op = "sweep"
  /\ proc[Sched].res = "ok" /\ proc[Sched].count = 0

\* C28: the sweep is idempotent: a sweep run right after another sweep has
\* finished, with nothing happening in between, changes no request and no
\* offer and returns the count 0.  The first client runs its sweeps one
\* after the other while the second client has never started.
C28_SweepIdempotent ==
  [][(/\ proc["c2"] = Idle /\ proc'["c2"] = Idle
      /\ opsLeft' <= QuietOps - 2
      /\ proc'["c1"] # proc["c1"]) =>
        /\ trip' = trip /\ offers' = offers
        /\ proc'["c1"].pc = "idle" => proc'["c1"].count = 0]_vars

\* The first sweep advanced a request; the second has returned 0.
C28_Witness ==
  /\ opsLeft = QuietOps - 2 /\ proc["c2"] = Idle
  /\ proc["c1"].pc = "idle" /\ proc["c1"].op = "sweep" /\ proc["c1"].count = 0
  /\ \E t \in TripIds : escCount[t] = 1 /\ trip[t].status = "searching"
  /\ \E t \in TripIds : escCount[t] = 0 /\ trip[t].status = "searching"

\* C29: coverage before exhaustion.  With no acceptance, an escalation gives
\* a tier's offer to no provider that already holds an offer of the same
\* request at another tier, and a request is cancelled by exhaustion only
\* when at least as many offers have been created for it as there are
\* eligible providers (request 1 is the only one booked).
C29_CoverageBeforeExhaustion ==
  [][\A p \in Procs :
       LET t == proc[p].trip IN
       /\ (proc[p].pc = "esc_write" /\ proc'[p] # proc[p] /\ Accepted(t) = {}) =>
            \A n \in NewOffers(t) : \A o \in OffersOf(t) :
               o.driver_id = n.driver_id => o.tier = n.tier
       /\ (/\ proc[p].pc = "esc_rank" /\ proc'[p] # proc[p] /\ Accepted(t) = {}
           /\ scope = {t}
           /\ trip[t].status = "searching" /\ trip'[t].status = "cancelled") =>
            nextOfferId - 1 >= EligibleCount(t)]_vars

\* C30: frame of accept, reject, cancel and escalation.  No step changes a
\* provider record, and a step of an accept, a reject, a cancel or an
\* escalation check working on request R leaves the status, the provider
\* reference and the offers of every other request as they were.
OpOf(p) == IF proc[p].pc = "idle" THEN proc'[p].op ELSE proc[p].op
RequestOf(p) == IF proc[p].pc = "idle" THEN proc'[p].trip ELSE proc[p].trip
C30_Frame ==
  [][/\ fleet' = fleet
     /\ \A p \in Procs :
          (proc'[p] # proc[p] /\ OpOf(p) \in {"accept", "reject", "cancel", "sweep"}) =>
             \A t \in TripIds \ {RequestOf(p)} :
                /\ trip'[t] = trip[t]
                /\ {o \in offers' : o.trip_id = t} = OffersOf(t)]_vars

\* Request 1 was escalated and then accepted by provider 1, who is still
\* available; request 2 is searching with its three offers unanswered, one
\* of them provider 1's.
C30_Witness ==
  /\ trip[1].status = "accepted" /\ trip[1].driver_id = 1
  /\ escCount[1] = 1
  /\ fleet[1].status = "available"
  /\ trip[2].status = "searching" /\ trip[2].driver_id = NoDriver
  /\ Cardinality({o \in OffersOf(2) : o.status = "pending" /\ o.tier = 1}) = TIER_SIZE
  /\ \E o \in OffersOf(2) : o.driver_id = 1

=============================================================================
